---- MODULE Spec2Model ----
\* A model of audio_processing_streamlit.py: the four operations behind the
\* tabs (normalize_audio, cut_audio, join_audio, generate_anki_csv), stepped
\* one loop iteration at a time, with the values each passes to its progress
\* sink, the archive entries, the output rows and the temporary files.
\*
\* Text is a sequence of one-character strings.  A waveform is a sequence of
\* runs [zero, db, ms]: ms milliseconds of constant level db (dBFS), zero
\* marking all-zero samples (level minus infinity).  Durations are whole
\* milliseconds, as len() of an AudioSegment is.
EXTENDS Integers, Sequences, FiniteSets, TLC

VARIABLES
    op,         \* the operation running: "idle", "cut", "join", "normalize", "anki", "trim"
    pc,         \* where it stands
    reported,   \* the values passed to the sink so far, each with the loop it came from
    uploaded,   \* the files argument, as passed
    files,      \* files after files = sorted(files, key=key)
    mode,       \* join_audio's mode
    rows,       \* generate_anki_csv's parsed rows
    lines,      \* cut_audio's transcript lines
    suffix,     \* cut_audio's suffix
    sound,      \* cut_audio's decoded recording
    i,          \* the loop counter
    total,      \* total of the running operation
    segments,   \* join_audio's trimmed chunks
    combined,   \* join_audio's composition
    chunks,     \* cut_audio's split_on_silence result
    zf,         \* the archive entries written by cut_audio
    buf,        \* the rows written by generate_anki_csv
    tmpfiles,   \* the temporary files of the call that exist on disk
    err         \* the exception raised, <<>> for none

vars == <<op, pc, reported, uploaded, files, mode, rows, lines, suffix,
          sound, i, total, segments, combined, chunks, zf, buf, tmpfiles, err>>

-----------------------------------------------------------------------------
\* Bounds of the model.

MaxRows == 2
MaxAnkiFiles == 3
MaxJoinFiles == 2
MaxLines == 2
MaxRuns == 3
MaxTrimRuns == 3

-----------------------------------------------------------------------------
\* Text.

Digits == <<"0", "1", "2", "3", "4", "5", "6", "7", "8", "9">>

\* \d of the regular expressions
IsDigit(c) == \E d \in 1..10 : Digits[d] = c

DigitValue(c) == (CHOOSE d \in 1..10 : Digits[d] = c) - 1

\* the characters of the model's texts that \w does not match
NonWordChars == {" ", ",", "!", "-", ".", "[", "]", ":"}

\* \w of the regular expressions
IsWord(c) == c \notin NonWordChars

IsSpace(c) == c = " "

\* int(text) of a run of digits
RECURSIVE int(_)
int(s) == IF s = <<>> THEN 0
          ELSE 10 * int(SubSeq(s, 1, Len(s) - 1)) + DigitValue(s[Len(s)])

\* str(n) of a natural number
RECURSIVE str(_)
str(n) == IF n < 10 THEN <<Digits[n + 1]>>
          ELSE str(n \div 10) \o <<Digits[(n % 10) + 1]>>

\* text.strip()
RECURSIVE lstrip(_)
lstrip(s) == IF s # <<>> /\ IsSpace(Head(s)) THEN lstrip(Tail(s)) ELSE s

RECURSIVE rstrip(_)
rstrip(s) == IF s # <<>> /\ IsSpace(s[Len(s)])
             THEN rstrip(SubSeq(s, 1, Len(s) - 1)) ELSE s

strip(s) == rstrip(lstrip(s))

\* re.sub(r'[^\w]', '', text)
RECURSIVE sub_nonword(_)
sub_nonword(s) == IF s = <<>> THEN <<>>
                  ELSE (IF IsWord(Head(s)) THEN <<Head(s)>> ELSE <<>>)
                       \o sub_nonword(Tail(s))

\* re.search(r"(\d+)", name): the leftmost digit, then greedily the digits
\* that follow it; the matched text, or <<>> when nothing matches
RECURSIVE SearchFrom(_, _)
SearchFrom(name, k) == IF k > Len(name) THEN 0
                       ELSE IF IsDigit(name[k]) THEN k
                       ELSE SearchFrom(name, k + 1)

RECURSIVE MatchEnd(_, _)
MatchEnd(name, k) == IF k < Len(name) /\ IsDigit(name[k + 1])
                     THEN MatchEnd(name, k + 1) ELSE k

re_search(name) == LET s == SearchFrom(name, 1)
                   IN IF s = 0 THEN <<>> ELSE SubSeq(name, s, MatchEnd(name, s))

\* re.match(r"(\d+)", name) in place of re.search: only the digits the name
\* starts with
re_match(name) == IF name # <<>> /\ IsDigit(name[1])
                  THEN SubSeq(name, 1, MatchEnd(name, 1)) ELSE <<>>

-----------------------------------------------------------------------------
\* Sort keys: an integer, or float('inf').

Inf == [inf |-> TRUE, n |-> 0]

Fin(n) == [inf |-> FALSE, n |-> n]

\* a < b on keys
key_lt(a, b) == IF a.inf THEN FALSE ELSE (b.inf \/ a.n < b.n)

\* key(f) written with re.match
join_key_match(f) == LET m == re_match(f.name)
                     IN IF m # <<>> THEN Fin(int(m)) ELSE Inf

\* key(f) of join_audio
join_key(f) == LET m == re_search(f.name)
               IN IF m # <<>> THEN Fin(int(m)) ELSE Inf

\* key(f) of generate_anki_csv
anki_key(f) == LET m == re_search(f.name)
               IN IF m # <<>> THEN Fin(int(m)) ELSE Inf

\* sorted(files, key=key): stable; an element goes after those not greater
RECURSIVE insort(_, _)
insort(s, e) == IF s = <<>> THEN <<e>>
                ELSE IF key_lt(e.k, Head(s).k) THEN <<e>> \o s
                ELSE <<Head(s)>> \o insort(Tail(s), e)

RECURSIVE sort_keyed(_)
sort_keyed(d) == IF d = <<>> THEN <<>>
                 ELSE insort(sort_keyed(SubSeq(d, 1, Len(d) - 1)), d[Len(d)])

sorted(fs, keys) ==
    LET d == [j \in 1..Len(fs) |-> [k |-> keys[j], f |-> fs[j]]]
        s == sort_keyed(d)
    IN [j \in 1..Len(fs) |-> s[j].f]

join_sorted(fs) == sorted(fs, [j \in 1..Len(fs) |-> join_key(fs[j])])

anki_sorted(fs) == sorted(fs, [j \in 1..Len(fs) |-> anki_key(fs[j])])

-----------------------------------------------------------------------------
\* Waveforms (AudioSegment), in canonical form: no empty run, no two
\* neighbouring runs of the same level.

Min(a, b) == IF a < b THEN a ELSE b

Max(a, b) == IF a > b THEN a ELSE b

Run(zero, db, ms) == [zero |-> zero, db |-> db, ms |-> ms]

SameLevel(r, q) == r.zero = q.zero /\ r.db = q.db

RECURSIVE Norm(_)
Norm(w) ==
    IF w = <<>> THEN <<>>
    ELSE LET r == Head(w)
             t == Norm(Tail(w))
         IN IF r.ms = 0 THEN t
            ELSE IF t # <<>> /\ SameLevel(r, Head(t))
                 THEN <<[r EXCEPT !.ms = r.ms + Head(t).ms]>> \o Tail(t)
                 ELSE <<r>> \o t

\* len(sound), in ms
RECURSIVE len(_)
len(w) == IF w = <<>> THEN 0 ELSE Head(w).ms + len(Tail(w))

\* a composition that starts from a second of silence instead of nothing
lead_in == <<Run(TRUE, 0, 1000)>>

\* AudioSegment.empty()
empty == <<>>

\* AudioSegment.silent(duration=d)
silent(d) == IF d = 0 THEN <<>> ELSE <<Run(TRUE, 0, d)>>

\* a + b
concat(a, b) == Norm(a \o b)

\* sound[s:e], 0 <= s and e <= len(sound)
RECURSIVE cut_runs(_, _, _, _)
cut_runs(w, pos, s, e) ==
    IF w = <<>> THEN <<>>
    ELSE LET r == Head(w)
             a == Max(pos, s)
             b == Min(pos + r.ms, e)
         IN (IF b > a THEN <<[r EXCEPT !.ms = b - a]>> ELSE <<>>)
            \o cut_runs(Tail(w), pos + r.ms, s, e)

slice(w, s, e) == Norm(cut_runs(w, 0, s, e))

\* a run whose level is at or below the silence threshold
IsQuiet(r, thresh) == r.zero \/ r.db <= thresh

\* the offset of run k of w (of the end of w for k = Len(w) + 1)
Offset(w, k) == len(SubSeq(w, 1, k - 1))

RECURSIVE QuietEnd(_, _, _)
QuietEnd(w, k, thresh) == IF k < Len(w) /\ IsQuiet(w[k + 1], thresh)
                          THEN QuietEnd(w, k + 1, thresh) ELSE k

\* pydub.silence.detect_silence: the stretches at or below thresh that last
\* at least min_silence_len, in order, from run k on
RECURSIVE detect_silence_from(_, _, _, _)
detect_silence_from(w, k, min_silence_len, thresh) ==
    IF k > Len(w) THEN <<>>
    ELSE IF ~IsQuiet(w[k], thresh)
         THEN detect_silence_from(w, k + 1, min_silence_len, thresh)
         ELSE LET e == QuietEnd(w, k, thresh)
                  a == Offset(w, k)
                  b == Offset(w, e + 1)
              IN (IF b - a >= min_silence_len THEN <<<<a, b>>>> ELSE <<>>)
                 \o detect_silence_from(w, e + 1, min_silence_len, thresh)

detect_silence(w, min_silence_len, thresh) ==
    detect_silence_from(w, 1, min_silence_len, thresh)

\* pydub.silence.detect_nonsilent: what detect_silence leaves, in order
RECURSIVE between(_, _, _)
between(sil, prev_end, len_seg) ==
    IF sil = <<>>
    THEN (IF prev_end # len_seg THEN <<<<prev_end, len_seg>>>> ELSE <<>>)
    ELSE <<<<prev_end, Head(sil)[1]>>>> \o between(Tail(sil), Head(sil)[2], len_seg)

detect_nonsilent(w, min_silence_len, thresh) ==
    LET sil == detect_silence(w, min_silence_len, thresh)
        len_seg == len(w)
    IN IF sil = <<>> THEN <<<<0, len_seg>>>>
       ELSE IF sil[1][1] = 0 /\ sil[1][2] = len_seg THEN <<>>
       ELSE LET non == between(sil, 0, len_seg)
            IN IF non[1] = <<0, 0>> THEN Tail(non) ELSE non

\* pydub.silence.split_on_silence: each non-silent span widened by
\* keep_silence on both sides, two widened spans that overlap meeting half
\* way, clipped to the waveform
split_on_silence(w, min_silence_len, thresh, keep_silence) ==
    LET non == detect_nonsilent(w, min_silence_len, thresh)
        lo(k) == non[k][1] - keep_silence
        hi(k) == non[k][2] + keep_silence
        start(k) == IF k > 1 /\ lo(k) < hi(k - 1)
                    THEN (hi(k - 1) + lo(k)) \div 2 ELSE lo(k)
        end(k) == IF k < Len(non) /\ lo(k + 1) < hi(k)
                  THEN (hi(k) + lo(k + 1)) \div 2 ELSE hi(k)
    IN [k \in 1..Len(non) |->
            slice(w, Max(start(k), 0), Min(end(k), len(w)))]

\* sound.max_dBFS: minus infinity (Inf) when every sample is zero
RECURSIVE max_dBFS(_)
max_dBFS(w) ==
    IF w = <<>> THEN Inf
    ELSE LET t == max_dBFS(Tail(w))
             r == Head(w)
         IN IF r.zero THEN t
            ELSE IF t.inf THEN Fin(r.db) ELSE Fin(Max(r.db, t.n))

\* c - x for x a level or minus infinity: a gain, or plus infinity (Inf)
gain_to(c, x) == IF x.inf THEN Inf ELSE Fin(c - x.n)

\* sound.apply_gain(g): every sample scaled; no sample, nothing to scale.
\* (An infinite gain meets samples only when every chunk is all-zero audio,
\* which the waveforms of the model exclude.)
apply_gain(w, g) ==
    [k \in 1..Len(w) |-> IF w[k].zero \/ g.inf THEN w[k]
                         ELSE [w[k] EXCEPT !.db = @ + g.n]]

-----------------------------------------------------------------------------
\* Program constants.

CutMinSilenceLen == 1000
CutSilenceThresh == -50
KeepSilence == 150
PadMs == 150
JoinMinSilenceLen == 25
JoinSilenceThresh == -40
GuardMs == 100
SaiFillerMs == 1000
PeakTarget == -3

-----------------------------------------------------------------------------
\* Inputs.

\* all sequences over S of length at most n
SeqUpTo(S, n) == UNION {[1..m -> S] : m \in 0..n}

T_10b == <<"1", "0", "-", "b">>
T_2a == <<"2", "-", "a">>
T_x2 == <<"x", "2">>
T_bare == <<"b", "a", "r", "e">>
T_07a1 == <<"0", "7", "a", "1">>
T_cd == <<"c", "d">>

NameSet == {T_10b, T_2a, T_x2, T_bare, T_07a1, T_cd}

JoinNameSet == {T_10b, T_2a, T_x2, T_bare}

Loud(ms) == Run(FALSE, -20, ms)
Faint(ms) == Run(FALSE, -45, ms)
Hush(ms) == Run(FALSE, -60, ms)

\* bytes that decode to a waveform, and bytes that do not decode
Audio(w) == [ok |-> TRUE, sound |-> w]
Corrupt == [ok |-> FALSE, sound |-> <<>>]

JoinDataSet == {Audio(<<Hush(120), Loud(30), Hush(30)>>),
                Audio(<<Hush(200)>>),
                Corrupt}

JoinFileSet == [name : JoinNameSet, data : JoinDataSet]

AnkiFileSet == [name : NameSet, data : {Corrupt}]

FieldA == <<"a">>
FieldB == <<"b">>
FieldC == <<"c">>
FieldD == <<"d">>

RowSet == {<<FieldA, FieldB>>, <<FieldC, FieldD>>}

L_hello == <<"H", "e", "l", "l", "o", ",", " ", "W", "o", "r", "l", "d", "!">>
L_empty == <<>>
L_ab == <<" ", "a", " ", "b", " ">>

LineSet == {L_hello, L_empty, L_ab}

SuffixSet == {<<"X">>}

CutRunSet == {Loud(400), Hush(1000), Hush(200)}

CutDataSet == {Audio(Norm(w)) : w \in SeqUpTo(CutRunSet, MaxRuns) \ {<<>>}}
              \cup {Corrupt}

TrimRunSet == {Loud(30), Loud(300), Hush(20), Hush(30), Hush(120), Faint(60)}

TrimSoundSet == {Norm(w) : w \in SeqUpTo(TrimRunSet, MaxTrimRuns)}

-----------------------------------------------------------------------------
\* The pieces of the operations.

\* int(i/total*scale); the double arithmetic gives the floor of i*scale/total
\* for every total below 50 (it first differs at i = 29, total = 50)
percent(k, n, scale) == (k * scale) \div n

\* line 49
cut_progress(k, n) == percent(k, n, 100)

\* the first loop reporting over the whole range
trim_progress_whole(k, n) == percent(k, n, 100)

\* line 71
trim_progress(k, n) == percent(k, n, 50)

\* line 77
concat_progress(k, n) == 50 + percent(k, n, 50)

\* line 119
anki_progress(k, n) == percent(k, n, 100)

\* progress(v); every caller passes a sink (lines 139, 161, 183, 210)
Report(log, v, at) == Append(log, [v |-> v, at |-> at])

\* line 40
text_line(ls, k) ==
    IF k - 1 < Len(ls) THEN sub_nonword(strip(ls[k])) ELSE str(k)

\* line 41
chunk_name(k, label, suf) ==
    str(k) \o <<"-">> \o label \o <<"-">> \o suf \o <<".", "m", "p", "3">>

\* the pad put in front only
padded_front(chunk) == concat(silent(PadMs), chunk)

\* lines 42-43
padded(chunk) == concat(concat(silent(PadMs), chunk), silent(PadMs))

\* the guard margin taken off the ends instead of left on them
trim_tight(w) ==
    LET nons == detect_nonsilent(w, JoinMinSilenceLen, JoinSilenceThresh)
    IN IF nons # <<>>
       THEN slice(w, Max(0, nons[1][1] + GuardMs),
                     Min(len(w), nons[Len(nons)][2] - GuardMs))
       ELSE w

\* lines 64-68
trim(w) ==
    LET nons == detect_nonsilent(w, JoinMinSilenceLen, JoinSilenceThresh)
    IN IF nons # <<>>
       THEN slice(w, Max(0, nons[1][1] - GuardMs),
                     Min(len(w), nons[Len(nons)][2] + GuardMs))
       ELSE w

\* the LAR filler as long as the segment, not twice as long
filler_single(seg, m) ==
    IF m = "SAI" THEN silent(SaiFillerMs) ELSE silent(len(seg))

\* line 75
filler(seg, m) ==
    IF m = "SAI" THEN silent(SaiFillerMs) ELSE silent(len(seg) * 2)

\* lines 78-79
peak_gain(w, m) ==
    IF m = "SAI" THEN apply_gain(w, gain_to(PeakTarget, max_dBFS(w))) ELSE w

\* f"[sound:{name}]"
sound_tag(name) == <<"[", "s", "o", "u", "n", "d", ":">> \o name \o <<"]">>

\* the file taken from the list as uploaded
upload_order_file(fs, sorted_fs, k) == fs[k]

\* files[i-1] of line 118, files being the sorted list
paired_file(fs, sorted_fs, k) == sorted_fs[k]

\* only too few files counted as a mismatch
counts_differ_short(nrows, nfiles) == nrows > nfiles

\* line 114
counts_differ(nrows, nfiles) == nrows # nfiles

-----------------------------------------------------------------------------
\* The state before a button is pressed.

Idle ==
    /\ op = "idle" /\ pc = "idle" /\ reported = <<>>
    /\ uploaded = <<>> /\ files = <<>> /\ mode = "SAI" /\ rows = <<>>
    /\ lines = <<>> /\ suffix = <<>> /\ sound = <<>> /\ i = 0 /\ total = 0
    /\ segments = <<>> /\ combined = <<>> /\ chunks = <<>> /\ zf = <<>>
    /\ buf = <<>> /\ tmpfiles = {} /\ err = <<>>

Init == Idle

\* raise: the operation ends with the exception e
Raise(e) == pc' = "failed" /\ err' = e

-----------------------------------------------------------------------------
\* cut_audio (lines 29-51)

\* lines 30-38: decode, split, read the transcript, open the archive
CutCall ==
    /\ pc = "idle"
    /\ \E data \in CutDataSet, ls \in SeqUpTo(LineSet, MaxLines),
          suf \in SuffixSet :
        /\ op' = "cut" /\ lines' = ls /\ suffix' = suf
        /\ IF data.ok
           THEN /\ sound' = data.sound
                /\ chunks' = split_on_silence(data.sound, CutMinSilenceLen,
                                              CutSilenceThresh, KeepSilence)
                /\ total' = Len(chunks')
                /\ pc' = "cut_loop"
                /\ err' = err
           ELSE /\ Raise(<<"DecodeError">>)
                /\ UNCHANGED <<sound, chunks, total>>
        /\ UNCHANGED <<reported, uploaded, files, mode, rows, i, segments,
                       combined, zf, buf, tmpfiles>>

\* lines 39-49: one chunk named, padded and written to the archive
CutChunk ==
    /\ op = "cut" /\ pc = "cut_loop" /\ i < total
    /\ i' = i + 1
    /\ zf' = Append(zf, [name |-> chunk_name(i', text_line(lines, i'), suffix),
                         audio |-> padded(chunks[i'])])
    /\ reported' = Report(reported, cut_progress(i', total), "cut")
    /\ UNCHANGED <<op, pc, uploaded, files, mode, rows, lines, suffix,
                   sound, total, segments, combined, chunks, buf, tmpfiles, err>>

\* lines 50-51: the loop is over, the archive is returned
CutReturn ==
    /\ op = "cut" /\ pc = "cut_loop" /\ i = total
    /\ pc' = "done"
    /\ UNCHANGED <<op, reported, uploaded, files, mode, rows, lines,
                   suffix, sound, i, total, segments, combined, chunks, zf,
                   buf, tmpfiles, err>>

-----------------------------------------------------------------------------
\* join_audio (lines 54-83)

\* lines 55-60
JoinCall ==
    /\ pc = "idle"
    /\ \E fs \in SeqUpTo(JoinFileSet, MaxJoinFiles), m \in {"SAI", "LAR"} :
        /\ op' = "join" /\ mode' = m /\ uploaded' = fs
        /\ files' = join_sorted(fs)
        /\ total' = Len(files')
        /\ segments' = <<>>
        /\ pc' = "join_trim"
        /\ UNCHANGED <<reported, rows, lines, suffix, sound, i, combined,
                       chunks, zf, buf, tmpfiles, err>>

\* lines 61-71: one chunk decoded and trimmed
JoinTrim ==
    /\ op = "join" /\ pc = "join_trim" /\ i < total
    /\ IF files[i + 1].data.ok
       THEN /\ i' = i + 1
            /\ segments' = Append(segments, trim(files[i'].data.sound))
            /\ reported' = Report(reported, trim_progress(i', total), "trim")
            /\ UNCHANGED <<pc, err>>
       ELSE /\ Raise(<<"DecodeError">>)
            /\ UNCHANGED <<i, segments, reported>>
    /\ UNCHANGED <<op, uploaded, files, mode, rows, lines, suffix, sound,
                   total, combined, chunks, zf, buf, tmpfiles>>

\* line 72: the first loop is over
JoinTrimmed ==
    /\ op = "join" /\ pc = "join_trim" /\ i = total
    /\ combined' = empty
    /\ i' = 0
    /\ pc' = "join_concat"
    /\ UNCHANGED <<op, reported, uploaded, files, mode, rows, lines,
                   suffix, sound, total, segments, chunks, zf, buf, tmpfiles,
                   err>>

\* lines 73-77: one trimmed chunk and its filler appended
JoinConcat ==
    /\ op = "join" /\ pc = "join_concat" /\ i < total
    /\ i' = i + 1
    /\ combined' = concat(concat(combined, segments[i']),
                          filler(segments[i'], mode))
    /\ reported' = Report(reported, concat_progress(i', total), "concat")
    /\ UNCHANGED <<op, pc, uploaded, files, mode, rows, lines, suffix,
                   sound, total, segments, chunks, zf, buf, tmpfiles, err>>

\* lines 78-83: the second loop is over; the gain step, the export
JoinReturn ==
    /\ op = "join" /\ pc = "join_concat" /\ i = total
    /\ combined' = peak_gain(combined, mode)
    /\ pc' = "done"
    /\ UNCHANGED <<op, reported, uploaded, files, mode, rows, lines,
                   suffix, sound, i, total, segments, chunks, zf, buf,
                   tmpfiles, err>>

-----------------------------------------------------------------------------
\* normalize_audio (lines 86-103)

\* lines 87-93: decode the input, create both temporary files
NormCall ==
    /\ pc = "idle"
    /\ \E decodes \in BOOLEAN :
        /\ op' = "normalize"
        /\ IF decodes
           THEN /\ tmpfiles' = {"tmp_in", "tmp_out"}
                /\ reported' = Report(Report(reported, 10, "normalize"),
                                       20, "normalize")
                /\ pc' = "norm_run"
                /\ err' = err
           ELSE /\ Raise(<<"DecodeError">>)
                /\ UNCHANGED <<tmpfiles, reported>>
        /\ UNCHANGED <<uploaded, files, mode, rows, lines, suffix, sound, i,
                       total, segments, combined, chunks, zf, buf>>

\* lines 94-98: the external tool, check=True
NormRun ==
    /\ op = "normalize" /\ pc = "norm_run"
    /\ \E outcome \in {"exit 0", "exit 1", "no executable"} :
        /\ IF outcome = "exit 0"
           THEN /\ reported' = Report(reported, 70, "normalize")
                /\ pc' = "norm_decode"
                /\ err' = err
           ELSE /\ Raise(IF outcome = "exit 1" THEN <<"CalledProcessError">>
                                               ELSE <<"FileNotFoundError">>)
                /\ UNCHANGED reported
        /\ UNCHANGED <<op, uploaded, files, mode, rows, lines, suffix,
                       sound, i, total, segments, combined, chunks, zf, buf,
                       tmpfiles>>

\* lines 99-103: decode the tool's output, encode it, unlink both files
NormDecode ==
    /\ op = "normalize" /\ pc = "norm_decode"
    /\ \E decodes \in BOOLEAN :
        /\ IF decodes
           THEN /\ reported' = Report(reported, 100, "normalize")
                /\ tmpfiles' = (tmpfiles \ {"tmp_in"}) \ {"tmp_out"}
                /\ pc' = "done"
                /\ err' = err
           ELSE /\ Raise(<<"DecodeError">>)
                /\ UNCHANGED <<reported, tmpfiles>>
        /\ UNCHANGED <<op, uploaded, files, mode, rows, lines, suffix,
                       sound, i, total, segments, combined, chunks, zf, buf>>

-----------------------------------------------------------------------------
\* generate_anki_csv (lines 106-120)

\* lines 107-116: parse, sort, compare the counts
AnkiCall ==
    /\ pc = "idle"
    /\ \E rs \in SeqUpTo(RowSet, MaxRows),
          fs \in SeqUpTo(AnkiFileSet, MaxAnkiFiles) :
        /\ op' = "anki" /\ rows' = rs /\ uploaded' = fs
        /\ files' = anki_sorted(fs)
        /\ total' = Len(rs)
        /\ IF counts_differ(Len(rs), Len(files'))
           THEN Raise(<<"ValueError", Len(rs), Len(files')>>)
           ELSE pc' = "anki_loop" /\ err' = err
        /\ UNCHANGED <<reported, mode, lines, suffix, sound, i, segments,
                       combined, chunks, zf, buf, tmpfiles>>

\* lines 117-119: one row written with its playback tag
AnkiRow ==
    /\ op = "anki" /\ pc = "anki_loop" /\ i < total
    /\ i' = i + 1
    /\ buf' = Append(buf, rows[i'] \o
                          <<sound_tag(paired_file(uploaded, files, i').name)>>)
    /\ reported' = Report(reported, anki_progress(i', total), "anki")
    /\ UNCHANGED <<op, pc, uploaded, files, mode, rows, lines, suffix,
                   sound, total, segments, combined, chunks, zf, tmpfiles, err>>

\* line 120
AnkiReturn ==
    /\ op = "anki" /\ pc = "anki_loop" /\ i = total
    /\ pc' = "done"
    /\ UNCHANGED <<op, reported, uploaded, files, mode, rows, lines,
                   suffix, sound, i, total, segments, combined, chunks, zf,
                   buf, tmpfiles, err>>

-----------------------------------------------------------------------------
\* The script runs again: the results and the exception of the last
\* operation are gone.

Rerun ==
    /\ pc \in {"done", "failed"}
    /\ op # "trim"
    /\ op' = "idle" /\ pc' = "idle" /\ reported' = <<>>
    /\ uploaded' = <<>> /\ files' = <<>> /\ mode' = "SAI" /\ rows' = <<>>
    /\ lines' = <<>> /\ suffix' = <<>> /\ sound' = <<>> /\ i' = 0
    /\ total' = 0 /\ segments' = <<>> /\ combined' = <<>> /\ chunks' = <<>>
    /\ zf' = <<>> /\ buf' = <<>> /\ tmpfiles' = {} /\ err' = <<>>

Next ==
    \/ CutCall \/ CutChunk \/ CutReturn
    \/ JoinCall \/ JoinTrim \/ JoinTrimmed \/ JoinConcat \/ JoinReturn
    \/ NormCall \/ NormRun \/ NormDecode
    \/ AnkiCall \/ AnkiRow \/ AnkiReturn
    \/ Rerun

Spec == Init /\ [][Next]_vars

-----------------------------------------------------------------------------
\* The trimming step of join_audio alone, applied to a waveform again and
\* again: segments holds the waveform and each result.

InitTrim ==
    \E w \in TrimSoundSet :
        /\ op = "trim" /\ pc = "trim" /\ reported = <<>>
        /\ uploaded = <<>> /\ files = <<>> /\ mode = "SAI" /\ rows = <<>>
        /\ lines = <<>> /\ suffix = <<>> /\ sound = <<>> /\ i = 0 /\ total = 0
        /\ segments = <<w>> /\ combined = <<>> /\ chunks = <<>> /\ zf = <<>>
        /\ buf = <<>> /\ tmpfiles = {} /\ err = <<>>

TrimAgain ==
    /\ op = "trim" /\ Len(segments) < 3
    /\ segments' = Append(segments, trim(segments[Len(segments)]))
    /\ UNCHANGED <<op, pc, reported, uploaded, files, mode, rows, lines,
                   suffix, sound, i, total, combined, chunks, zf, buf,
                   tmpfiles, err>>

NextTrim == TrimAgain

SpecTrim == InitTrim /\ [][NextTrim]_vars

-----------------------------------------------------------------------------
\* What the properties below speak of.

HasDigit(t) == \E k \in 1..Len(t) : IsDigit(t[k])

\* the first run of digits of a text that has a digit
FirstRun(t) ==
    LET a == CHOOSE k \in 1..Len(t) :
                 IsDigit(t[k]) /\ \A j \in 1..(k - 1) : ~IsDigit(t[j])
        b == CHOOSE k \in a..Len(t) :
                 /\ \A j \in a..k : IsDigit(t[j])
                 /\ k = Len(t) \/ ~IsDigit(t[k + 1])
    IN SubSeq(t, a, b)

RECURSIVE Pow10(_)
Pow10(n) == IF n = 0 THEN 1 ELSE 10 * Pow10(n - 1)

RECURSIVE Decimal(_)
Decimal(ds) == IF ds = <<>> THEN 0
               ELSE DigitValue(Head(ds)) * Pow10(Len(ds) - 1) + Decimal(Tail(ds))

FirstNumber(t) == Decimal(FirstRun(t))

\* name a goes before name b in the numeric order
Before(a, b) == HasDigit(a) /\ (~HasDigit(b) \/ FirstNumber(a) < FirstNumber(b))

\* the place of fs[j] in the stable numeric order of fs
Place(fs, j) ==
    1 + Cardinality({k \in 1..Len(fs) :
                        \/ Before(fs[k].name, fs[j].name)
                        \/ k < j /\ ~Before(fs[j].name, fs[k].name)})

\* fs in numeric order, equal keys keeping their relative order
NumericOrder(fs) ==
    [p \in 1..Len(fs) |-> fs[CHOOSE j \in 1..Len(fs) : Place(fs, j) = p]]

Names(fs) == [k \in 1..Len(fs) |-> fs[k].name]

\* C1: generate_anki_csv called with a row count that differs from the file
\* count has failed with the error carrying (row count, file count), has
\* written no row and has reported no progress.
C1_CountMismatchAtomic ==
    (op = "anki" /\ Len(rows) # Len(uploaded))
        => /\ pc = "failed"
           /\ err = <<"ValueError", Len(rows), Len(uploaded)>>
           /\ buf = <<>>
           /\ reported = <<>>

C1_Witness ==
    /\ op = "anki" /\ pc = "failed"
    /\ Len(rows) = 0 /\ Len(uploaded) = 2

\* C2: with equal counts, generate_anki_csv has written one row per input row
\* processed, in row order; written row k is input row k with one field
\* appended, the tag [sound:<name>] of the k-th chunk in numeric order; at
\* return every row has been written.
C2_RowsPaired ==
    (op = "anki" /\ Len(rows) = Len(uploaded))
        => /\ Len(buf) = i
           /\ pc = "done" => Len(buf) = Len(rows)
           /\ \A k \in 1..Len(buf) :
                /\ Len(buf[k]) = Len(rows[k]) + 1
                /\ SubSeq(buf[k], 1, Len(rows[k])) = rows[k]
                /\ buf[k][Len(buf[k])] =
                     <<"[", "s", "o", "u", "n", "d", ":">>
                     \o NumericOrder(uploaded)[k].name \o <<"]">>

C2_Witness ==
    /\ op = "anki" /\ pc = "done"
    /\ rows = <<<<FieldA, FieldB>>, <<FieldC, FieldD>>>>
    /\ Names(uploaded) = <<T_10b, T_2a>>
    /\ buf = <<<<FieldA, FieldB, sound_tag(T_2a)>>,
               <<FieldC, FieldD, sound_tag(T_10b)>>>>

\* C3: in join_audio and in generate_anki_csv the sorted files are the files
\* passed, in the order of the integer value of each name's first run of
\* digits, names without a digit last, equal keys in their original relative
\* order; the two operations order a collection the same way.
C3_StableNumericSort ==
    (op \in {"join", "anki"})
        => /\ files = NumericOrder(uploaded)
           /\ \A k, l \in 1..Len(files) :
                k < l => ~Before(files[l].name, files[k].name)
           /\ \A f \in {uploaded[k] : k \in 1..Len(uploaded)} :
                Cardinality({k \in 1..Len(files) : files[k] = f})
                    = Cardinality({k \in 1..Len(uploaded) : uploaded[k] = f})
           /\ op = "join" => files = anki_sorted(uploaded)
           /\ op = "anki" => files = join_sorted(uploaded)

C3_Witness ==
    /\ op = "anki"
    /\ Names(uploaded) = <<T_bare, T_x2, T_10b>>
    /\ Names(files) = <<T_x2, T_10b, T_bare>>

\* the label of chunk k as the transcript gives it: line k without its
\* non-word characters, or the index when there is no line k or it is empty
C4_Label(k) ==
    IF k <= Len(lines) /\ lines[k] # <<>>
    THEN SelectSeq(lines[k], IsWord) ELSE str(k)

\* C4: every archive entry written by cut_audio is named
\* "{k}-{label}-{suffix}" (and the extension), label being transcript line k
\* without its non-word characters, or the decimal k when the transcript has
\* no line k or line k is empty.
C4_LabelFallsBackToIndex ==
    op = "cut" =>
        \A k \in 1..Len(zf) :
            zf[k].name = str(k) \o <<"-">> \o C4_Label(k) \o <<"-">> \o suffix
                         \o <<".", "m", "p", "3">>

\* C5: when normalize_audio has ended, by returning or by raising, no
\* temporary file it created exists.
C5_TempFilesRemoved ==
    (op = "normalize" /\ pc \in {"done", "failed"}) => tmpfiles = {}

\* the sum of the durations of the first k trimmed chunks
RECURSIVE TrimmedMs(_)
TrimmedMs(k) == IF k = 0 THEN 0 ELSE TrimmedMs(k - 1) + len(segments[k])

\* trimmed_1, filler_1, ..., trimmed_k, filler_k laid end to end
RECURSIVE Composition(_)
Composition(k) ==
    IF k = 0 THEN <<>>
    ELSE Composition(k - 1) \o segments[k]
         \o <<Run(TRUE, 0, IF mode = "SAI" THEN 1000
                           ELSE 2 * len(segments[k]))>>

\* a waveform's runs without their levels
Shape(w) == [k \in 1..Len(w) |-> <<w[k].zero, w[k].ms>>]

\* C6: in join_audio the composition of the first k chunks in sorted order is
\* trimmed_1, filler_1, ..., trimmed_k, filler_k, filler_j lasting 1000 ms in
\* mode SAI and twice trimmed_j in mode LAR; so it lasts the trimmed chunks'
\* total plus 1000 k in mode SAI and three times that total in mode LAR.  The
\* gain step at the end leaves the layout and the duration as they are.
C6_FillerAfterEveryChunk ==
    (op = "join" /\ pc \in {"join_concat", "done"})
        => /\ \A k \in 1..Len(segments) :
                segments[k] = trim(files[k].data.sound)
           /\ Shape(combined) = Shape(Norm(Composition(i)))
           /\ (pc = "join_concat" \/ mode = "LAR")
                => combined = Norm(Composition(i))
           /\ len(combined) = IF mode = "SAI" THEN TrimmedMs(i) + 1000 * i
                              ELSE 3 * TrimmedMs(i)
           /\ pc = "done" => i = Len(uploaded)

C6_Witness ==
    /\ op = "join" /\ pc = "done" /\ mode = "LAR" /\ total = 2
    /\ len(segments[1]) = 160 /\ len(segments[2]) = 200
    /\ len(combined) = 1080

\* C7: join_audio called with no chunk, in either mode, raises nothing, can
\* always take its next step until it has returned, reports no progress, and
\* returns a composition of duration zero.
C7_EmptyJoin ==
    (op = "join" /\ uploaded = <<>>)
        => /\ pc # "failed" /\ err = <<>>
           /\ reported = <<>>
           /\ pc # "done" => ENABLED (JoinTrimmed \/ JoinReturn)
           /\ pc \in {"join_concat", "done"} => len(combined) = 0

C7_Witness ==
    /\ op = "join" /\ uploaded = <<>> /\ pc = "done" /\ mode = "SAI"

\* C8: the values an operation has passed to its progress sink are integers
\* from 0 to 100 and never decrease; in join_audio those of the trimming loop
\* lie in 0..50, those of the concatenation loop in 50..100 and after every
\* trimming value; an operation that returns after at least one unit of work
\* has reported 100 last.
C8_ProgressMonotone ==
    /\ \A k \in 1..Len(reported) :
        /\ reported[k].v \in 0..100
        /\ k > 1 => reported[k - 1].v <= reported[k].v
        /\ reported[k].at = "trim" => reported[k].v \in 0..50
        /\ reported[k].at = "concat" => reported[k].v \in 50..100
        /\ \A l \in 1..(k - 1) :
            ~(reported[l].at = "concat" /\ reported[k].at = "trim")
    /\ (pc = "done" /\ (total >= 1 \/ op = "normalize"))
        => reported # <<>> /\ reported[Len(reported)].v = 100

C8_Witness ==
    /\ op = "join" /\ pc = "done" /\ total = 2
    /\ [k \in 1..Len(reported) |-> reported[k].v] = <<25, 50, 75, 100>>

\* the non-silent spans of the recording under cut_audio's thresholds
C9_Spans == detect_nonsilent(sound, 1000, -50)

\* C9 as stated: cut_audio makes one chunk per non-silent span, in order, and
\* chunk k lasts 300 ms longer than span k.
C9_SpanPlusPadding ==
    (op = "cut" /\ pc # "failed")
        => /\ Len(chunks) = Len(C9_Spans)
           /\ \A k \in 1..Len(zf) :
                len(zf[k].audio) = (C9_Spans[k][2] - C9_Spans[k][1]) + 300

\* C9 amended: cut_audio makes one chunk per non-silent span, in order; chunk
\* k is 150 ms of silence, the recording from up to 150 ms before span k to
\* up to 150 ms after it (less where the recording starts or ends sooner),
\* and 150 ms of silence: 300 ms longer than span k and what was kept of the
\* recording around it.
C9_SpanKeptAndPadded ==
    (op = "cut" /\ pc # "failed")
        => /\ Len(chunks) = Len(C9_Spans)
           /\ Len(zf) = i
           /\ pc = "done" => Len(zf) = Len(C9_Spans)
           /\ \A k \in 1..Len(zf) :
                LET a == C9_Spans[k][1]
                    b == C9_Spans[k][2]
                    before == Min(150, a)
                    after == Min(150, len(sound) - b)
                IN /\ len(zf[k].audio) = (b - a) + before + after + 300
                   /\ zf[k].audio = Norm(<<Run(TRUE, 0, 150)>>
                                         \o slice(sound, a - before, b + after)
                                         \o <<Run(TRUE, 0, 150)>>)
                   /\ k > 1 => C9_Spans[k - 1][2] < a

C9_Witness ==
    /\ op = "cut" /\ pc = "done" /\ Len(zf) = 2
    /\ sound = <<Loud(400), Hush(1000), Loud(400)>>
    /\ len(zf[1].audio) = 850 /\ len(zf[2].audio) = 850

\* the trimming step as described: the waveform itself when it has no
\* non-silent interval, else from 100 ms before the first interval to 100 ms
\* after the last, within the waveform
C10_Trimmed(w) ==
    LET nons == detect_nonsilent(w, 25, -40)
    IN IF nons = <<>> THEN w
       ELSE slice(w, Max(0, nons[1][1] - 100),
                     Min(len(w), nons[Len(nons)][2] + 100))

\* C10: trimming a trimmed waveform again returns it unchanged.
C10_TrimIdempotent ==
    /\ Len(segments) >= 2 => segments[2] = C10_Trimmed(segments[1])
    /\ Len(segments) >= 3 => segments[3] = segments[2]

C10_Witness ==
    /\ Len(segments) = 3
    /\ segments[1] = <<Hush(30), Loud(30), Hush(120)>>
    /\ segments[2] = <<Hush(30), Loud(30), Hush(100)>>

====
